---------------------------- MODULE Spec2Model ----------------------------
(***************************************************************************)
(* BinaryClock (src/BinaryClock.ino): the fixed-tick control loop of an    *)
(* Arduino clock suite with a time of day, a stopwatch and a countdown     *)
(* timer, four mode dependent buttons and a set button.                    *)
(*                                                                         *)
(* One step of the model is one iteration of loop(): the five button pins  *)
(* take a level, then loop() runs to its end (set button, time of day,     *)
(* mode toggle, mode handler).  The LCD is write-only and is not read back *)
(* by the program, so its text is not part of the state; the LED pins are. *)
(* The delay at the end of loop() only paces the ticks.  A handler reads a *)
(* button twice in a row (HIGH?, else LOW?); the two reads are one sample. *)
(* pins, events, was, startTime, held and tickCount are history variables: *)
(* the program does not read them.                                         *)
(***************************************************************************)
EXTENDS Integers, FiniteSets, Sequences, TLC

\* const int TICKRATE = 8;
TICKRATE == 8
\* const int lowestPin = 22;  const int highestPin = 38;
lowestPin == 22
highestPin == 38
lowestSecPin == lowestPin
lowestMinPin == lowestSecPin + 6
lowestHourPin == lowestMinPin + 6

\* Bounds of the model (not program constants).
\* Ticks of loop() explored from power-on with every button free.
MaxTicks == 7
\* Ticks in which the user still touches buttons in the countdown runs.
SetupTicks == 7
\* Length of a countdown run that is left alone.
RunTicks == 31000
\* Applications of count_time in the arithmetic check.
MaxCount == 125
\* Ticks of an editing session with start/stop, clear and h/m/s free.
EditTicks == 4
\* Length of an editing run in which start/stop stays held.
HoldTicks == 130
\* Length of a run in which the finished timer flashes.
FlashTicks == 175
\* Ticks of a run that starts with a timer already set.
TimerTicks == 8
\* Ticks of a run that starts with the stopwatch displayed.
WatchTicks == 3

VARIABLES
  timeOfDay, stopWatchTime, timer,      \* the three timeStruct globals
  modeNumber,                           \* 0 clock, 1 stopwatch, 2 timer
  toggleButtonRelease, f1ButtonRelease, f2ButtonRelease,
  f3ButtonRelease, setButtonRelease,    \* release-pending latches
  increment, segment, isSettingTime,
  isStopwatchCounting, isTimerCounting,
  flash,
  leds,                                 \* level of the output pins 22..38
  pins,                                 \* level of the five button pins as last sampled
  events,                               \* branches loop() took in the last tick
  was,                                  \* mode, setting and running flags before the last tick
  startTime,                            \* the time of day the run started at
  held,                                 \* consecutive ticks in which set_time found start/stop pressed
  tickCount                             \* iterations of loop() in the run

vars == << timeOfDay, stopWatchTime, timer, modeNumber, toggleButtonRelease,
           f1ButtonRelease, f2ButtonRelease, f3ButtonRelease, setButtonRelease,
           increment, segment, isSettingTime, isStopwatchCounting,
           isTimerCounting, flash, leds, pins, events, was, startTime,
           held, tickCount >>

\* struct timeStruct with its member initialisers.
timeStruct == [hours |-> 0, minutes |-> 0, seconds |-> 0, milliseconds |-> 0]

\* The set of button samples of one tick: 1 is HIGH (pressed), 0 is LOW.
Pins == [toggle : {0, 1}, f1 : {0, 1}, f2 : {0, 1}, f3 : {0, 1}, set : {0, 1}]
NoButton == [toggle |-> 0, f1 |-> 0, f2 |-> 0, f3 |-> 0, set |-> 0]

LedPins == lowestPin .. highestPin
AllLeds(level) == [p \in LedPins |-> level]

\* bitRead(value, bit) on a 16-bit two's complement int.
bitRead(value, bit) == ((value % 65536) \div (2 ^ bit)) % 2

\* The program state as one record, and the state after construction.
State ==
  [ timeOfDay |-> timeOfDay, stopWatchTime |-> stopWatchTime, timer |-> timer,
    modeNumber |-> modeNumber, toggleButtonRelease |-> toggleButtonRelease,
    f1ButtonRelease |-> f1ButtonRelease, f2ButtonRelease |-> f2ButtonRelease,
    f3ButtonRelease |-> f3ButtonRelease, setButtonRelease |-> setButtonRelease,
    increment |-> increment, segment |-> segment, isSettingTime |-> isSettingTime,
    isStopwatchCounting |-> isStopwatchCounting, isTimerCounting |-> isTimerCounting,
    flash |-> flash, leds |-> leds, events |-> events ]

PowerOn ==
  [ timeOfDay |-> timeStruct, stopWatchTime |-> timeStruct, timer |-> timeStruct,
    modeNumber |-> 0, toggleButtonRelease |-> 0,
    f1ButtonRelease |-> 0, f2ButtonRelease |-> 0,
    f3ButtonRelease |-> 0, setButtonRelease |-> 0,
    increment |-> 0, segment |-> 0, isSettingTime |-> 0,
    isStopwatchCounting |-> 0, isTimerCounting |-> 0,
    flash |-> 0, leds |-> AllLeds(0), events |-> {} ]

Mark(s, e) == [s EXCEPT !.events = @ \cup {e}]

----------------------------------------------------------------------------
\* Mutant of count_time: the hours are not reduced modulo 24.
count_time_NoHourWrap(t) ==
  LET a == [t EXCEPT !.milliseconds = @ + TICKRATE]
      b == IF a.milliseconds = 1000
           THEN [a EXCEPT !.seconds = @ + 1, !.milliseconds = 0] ELSE a
      c == IF b.seconds = 60
           THEN [b EXCEPT !.minutes = @ + 1, !.seconds = 0] ELSE b
  IN  IF c.minutes = 60
      THEN [c EXCEPT !.hours = @ + 1, !.minutes = 0] ELSE c

\* Mutant of count_time: the second is carried only above 1000 ms.
count_time_CarriesAbove1000(t) ==
  LET a == [t EXCEPT !.milliseconds = @ + TICKRATE]
      b == IF a.milliseconds > 1000
           THEN [a EXCEPT !.seconds = @ + 1, !.milliseconds = 0] ELSE a
      c == IF b.seconds = 60
           THEN [b EXCEPT !.minutes = @ + 1, !.seconds = 0] ELSE b
      d == IF c.minutes = 60
           THEN [c EXCEPT !.hours = @ + 1, !.minutes = 0] ELSE c
  IN  [d EXCEPT !.hours = @ % 24]

\* void count_time(timeStruct &t)
count_time(t) ==
  LET a == [t EXCEPT !.milliseconds = @ + TICKRATE]
      b == IF a.milliseconds = 1000
           THEN [a EXCEPT !.seconds = @ + 1, !.milliseconds = 0] ELSE a
      c == IF b.seconds = 60
           THEN [b EXCEPT !.minutes = @ + 1, !.seconds = 0] ELSE b
      d == IF c.minutes = 60
           THEN [c EXCEPT !.hours = @ + 1, !.minutes = 0] ELSE c
  IN  [d EXCEPT !.hours = @ % 24]

\* Mutant of led_display: the hours are written from bit 1 on.
led_display_HoursShifted(l, t) ==
  IF t.milliseconds = 0 \/ t.milliseconds = 1000
  THEN [p \in LedPins |->
          IF p < lowestMinPin THEN bitRead(t.seconds, p - lowestSecPin)
          ELSE IF p < lowestHourPin THEN bitRead(t.minutes, p - lowestMinPin)
          ELSE bitRead(t.hours, p - lowestHourPin + 1)]
  ELSE l

\* void led_display(timeStruct &t): the LED levels after the call.
led_display(l, t) ==
  IF t.milliseconds = 0 \/ t.milliseconds = 1000
  THEN [p \in LedPins |->
          IF p < lowestMinPin THEN bitRead(t.seconds, p - lowestSecPin)
          ELSE IF p < lowestHourPin THEN bitRead(t.minutes, p - lowestMinPin)
          ELSE bitRead(t.hours, p - lowestHourPin)]
  ELSE l

\* set_time, lines 249-259: the h/m/s button moves the segment.
set_time_f3(s, p) ==
  IF p.f3 = 1 THEN [s EXCEPT !.f3ButtonRelease = 1]
  ELSE IF s.f3ButtonRelease = 1
       THEN Mark([s EXCEPT !.segment = (@ + 1) % 3, !.f3ButtonRelease = 0], "ed_f3")
       ELSE s

\* Mutant of set_time_f2: the clear button zeroes the whole time.
set_time_f2_ClearsAll(s, which, p) ==
  IF p.f2 = 1 THEN [s EXCEPT !.f2ButtonRelease = 1]
  ELSE IF s.f2ButtonRelease = 1
       THEN LET t == s[which]
                u == [t EXCEPT !.seconds = 0, !.minutes = 0, !.hours = 0]
            IN  Mark([s EXCEPT ![which] = u, !.f2ButtonRelease = 0,
                               !.leds = led_display(s.leds, u)], "ed_clear")
       ELSE s

\* set_time, lines 262-276: the clear button zeroes the unit at the segment.
set_time_f2(s, which, p) ==
  IF p.f2 = 1 THEN [s EXCEPT !.f2ButtonRelease = 1]
  ELSE IF s.f2ButtonRelease = 1
       THEN LET t == s[which]
                u == CASE s.segment = 0 -> [t EXCEPT !.seconds = 0]
                       [] s.segment = 1 -> [t EXCEPT !.minutes = 0]
                       [] s.segment = 2 -> [t EXCEPT !.hours = 0]
                       [] OTHER -> t
            IN  Mark([s EXCEPT ![which] = u, !.f2ButtonRelease = 0,
                               !.leds = led_display(s.leds, u)], "ed_clear")
       ELSE s

\* set_time, lines 289-307: one increment of the unit at the segment.
set_time_increment(t, seg) ==
  LET a == CASE seg = 0 -> [t EXCEPT !.seconds = @ + 1]
             [] seg = 1 -> [t EXCEPT !.minutes = @ + 1]
             [] seg = 2 -> [t EXCEPT !.hours = @ + 1]
             [] OTHER -> t
      b == IF a.seconds > 60
           THEN [a EXCEPT !.seconds = @ % 60, !.minutes = @ + 1] ELSE a
      c == IF b.minutes > 60
           THEN [b EXCEPT !.minutes = @ % 60, !.hours = @ + 1] ELSE b
  IN  [c EXCEPT !.hours = @ % 24]

\* set_time, lines 279-316: start/stop held auto-repeats, its release resets.
set_time_f1(s, which, p) ==
  IF p.f1 = 1
  THEN LET t == s[which]
           shown == led_display(s.leds, t)
           hit == (s.increment % 152 = 0)
           u == IF hit THEN set_time_increment(t, s.segment) ELSE t
           r == [s EXCEPT ![which] = u, !.leds = shown, !.f1ButtonRelease = 1,
                          !.increment = (@ + TICKRATE) % 1000]
       IN  IF hit THEN Mark(Mark(r, "ed_hold"), "ed_inc") ELSE Mark(r, "ed_hold")
  ELSE IF s.f1ButtonRelease = 1
       THEN Mark([s EXCEPT !.increment = 0, !.f1ButtonRelease = 0], "ed_f1rel")
       ELSE s

\* void set_time(timeStruct &t), t being the global named which.
set_time(s, which, p) ==
  LET s0 == [s EXCEPT ![which].milliseconds = 0]
  IN  set_time_f1(set_time_f2(set_time_f3(s0, p), which, p), which, p)


----------------------------------------------------------------------------
\* Mutant of run_stopwatch: the clear event zeroes the time but leaves the
\* stopwatch running.
run_stopwatch_ClearKeepsRunning(s, p) ==
  LET a == IF p.f1 = 1 THEN [s EXCEPT !.f1ButtonRelease = 1]
           ELSE IF s.f1ButtonRelease = 1
                THEN Mark([s EXCEPT !.isStopwatchCounting = IF @ = 0 THEN 1 ELSE 0,
                                    !.f1ButtonRelease = 0], "sw_f1")
                ELSE s
      b == IF p.f2 = 1 THEN [a EXCEPT !.f2ButtonRelease = 1]
           ELSE IF a.f2ButtonRelease = 1
                THEN Mark([a EXCEPT !.stopWatchTime = timeStruct,
                                    !.f2ButtonRelease = 0,
                                    !.leds = led_display(a.leds, timeStruct)], "sw_clear")
                ELSE a
  IN  IF b.isStopwatchCounting = 1
      THEN LET t == count_time(b.stopWatchTime)
           IN  Mark([b EXCEPT !.stopWatchTime = t,
                              !.leds = led_display(b.leds, t)], "sw_count")
      ELSE b

\* void run_stopwatch()
run_stopwatch(s, p) ==
  LET a == IF p.f1 = 1 THEN [s EXCEPT !.f1ButtonRelease = 1]
           ELSE IF s.f1ButtonRelease = 1
                THEN Mark([s EXCEPT !.isStopwatchCounting = IF @ = 0 THEN 1 ELSE 0,
                                    !.f1ButtonRelease = 0], "sw_f1")
                ELSE s
      b == IF p.f2 = 1 THEN [a EXCEPT !.f2ButtonRelease = 1]
           ELSE IF a.f2ButtonRelease = 1
                THEN Mark([a EXCEPT !.stopWatchTime = timeStruct,
                                    !.isStopwatchCounting = 0,
                                    !.f2ButtonRelease = 0,
                                    !.leds = led_display(a.leds, timeStruct)], "sw_clear")
                ELSE a
  IN  IF b.isStopwatchCounting = 1
      THEN LET t == count_time(b.stopWatchTime)
           IN  Mark([b EXCEPT !.stopWatchTime = t,
                              !.leds = led_display(b.leds, t)], "sw_count")
      ELSE b

\* run_timer, lines 331-356: start/stop and clear while not setting the time.
run_timer_buttons(s, p) ==
  LET a == IF p.f1 = 1 THEN [s EXCEPT !.f1ButtonRelease = 1]
           ELSE IF s.f1ButtonRelease = 1
                THEN Mark([s EXCEPT !.isTimerCounting = IF @ = 0 THEN 1 ELSE 0,
                                    !.f1ButtonRelease = 0], "t_f1")
                ELSE s
  IN  IF p.f2 = 1 THEN [a EXCEPT !.f2ButtonRelease = 1]
      ELSE IF a.f2ButtonRelease = 1
           THEN Mark([a EXCEPT !.timer = timeStruct,
                               !.isTimerCounting = 0,
                               !.f1ButtonRelease = 0], "t_clear")
           ELSE a

\* Mutant of run_timer_flash: the LEDs are switched on and never off again.
run_timer_flash_NeverOff(s) ==
  LET f == (s.flash + 1) % 80
  IN  Mark([s EXCEPT !.flash = f,
                     !.leds = IF f = 0 THEN AllLeds(1) ELSE @], "t_flash")

\* run_timer, lines 362-381: the timer has finished, flash the LEDs.
run_timer_flash(s) ==
  LET f == (s.flash + 1) % 80
  IN  Mark([s EXCEPT !.flash = f,
                     !.leds = IF f = 0 THEN AllLeds(1)
                              ELSE IF f = 40 THEN AllLeds(0) ELSE @], "t_flash")

\* Mutant of run_timer_count: a minute underflow borrows from the hours.
run_timer_count_BorrowsHours(s) ==
  LET t == s.timer
      a == [t EXCEPT !.milliseconds = @ - (TICKRATE - 2)]
      b == IF a.milliseconds < 0
           THEN [a EXCEPT !.seconds = @ - 1, !.milliseconds = 1000] ELSE a
      c == IF b.seconds = -1
           THEN [b EXCEPT !.minutes = @ - 1, !.seconds = 59] ELSE b
      d == IF c.minutes = -1
           THEN [c EXCEPT !.hours = @ - 1, !.minutes = 59] ELSE c
  IN  Mark([s EXCEPT !.timer = d, !.leds = led_display(s.leds, t)], "t_count")

\* run_timer, lines 384-404: count down by TICKRATE - 2 with borrow.
run_timer_count(s) ==
  LET t == s.timer
      a == [t EXCEPT !.milliseconds = @ - (TICKRATE - 2)]
      b == IF a.milliseconds < 0
           THEN [a EXCEPT !.seconds = @ - 1, !.milliseconds = 1000] ELSE a
      c == IF b.seconds = -1
           THEN [b EXCEPT !.minutes = @ - 1, !.seconds = 59] ELSE b
      d == IF c.minutes = -1
           THEN [c EXCEPT !.minutes = @ - 1, !.seconds = 59] ELSE c
  IN  Mark([s EXCEPT !.timer = d, !.leds = led_display(s.leds, t)], "t_count")

\* The test of line 362.
timer_finished(t) == t.hours + t.seconds + t.milliseconds + t.minutes = 0

\* void run_timer()
run_timer(s, p) ==
  LET a == IF s.isSettingTime = 0 THEN run_timer_buttons(s, p) ELSE s
  IN  IF a.isSettingTime # 0 THEN Mark(set_time(a, "timer", p), "t_set")
      ELSE IF timer_finished(a.timer) THEN run_timer_flash(a)
      ELSE IF a.isTimerCounting # 0 THEN run_timer_count(a)
      ELSE a

----------------------------------------------------------------------------
\* Mutant of loop_set: the set button begins editing in the stopwatch too.
loop_set_AnyMode(s, p) ==
  IF p.set = 1 THEN [s EXCEPT !.setButtonRelease = 1]
  ELSE IF s.setButtonRelease = 1
       THEN IF s.isSettingTime = 0
            THEN IF s.modeNumber = 2
                 THEN Mark([s EXCEPT !.isSettingTime = 1, !.leds = AllLeds(0),
                                     !.timer = timeStruct, !.isTimerCounting = 0,
                                     !.setButtonRelease = 0], "set_enter")
                 ELSE Mark([s EXCEPT !.isSettingTime = 1,
                                     !.setButtonRelease = 0], "set_enter")
            ELSE Mark([s EXCEPT !.isSettingTime = 0, !.increment = 0,
                                !.segment = 0, !.setButtonRelease = 0], "set_exit")
       ELSE s

\* Mutant of loop_set: entering the setting of the timer keeps the timer.
loop_set_KeepsTimer(s, p) ==
  IF p.set = 1 THEN [s EXCEPT !.setButtonRelease = 1]
  ELSE IF s.setButtonRelease = 1
       THEN IF s.isSettingTime = 0 /\ s.modeNumber # 1
            THEN IF s.modeNumber = 2
                 THEN Mark([s EXCEPT !.isSettingTime = 1, !.leds = AllLeds(0),
                                     !.setButtonRelease = 0], "set_enter")
                 ELSE Mark([s EXCEPT !.isSettingTime = 1,
                                     !.setButtonRelease = 0], "set_enter")
            ELSE Mark([s EXCEPT !.isSettingTime = 0, !.increment = 0,
                                !.segment = 0, !.setButtonRelease = 0], "set_exit")
       ELSE s

\* loop, lines 488-536: the set button enters or leaves the setting of time.
loop_set(s, p) ==
  IF p.set = 1 THEN [s EXCEPT !.setButtonRelease = 1]
  ELSE IF s.setButtonRelease = 1
       THEN IF s.isSettingTime = 0 /\ s.modeNumber # 1
            THEN IF s.modeNumber = 2
                 THEN Mark([s EXCEPT !.isSettingTime = 1, !.leds = AllLeds(0),
                                     !.timer = timeStruct, !.isTimerCounting = 0,
                                     !.setButtonRelease = 0], "set_enter")
                 ELSE Mark([s EXCEPT !.isSettingTime = 1,
                                     !.setButtonRelease = 0], "set_enter")
            ELSE Mark([s EXCEPT !.isSettingTime = 0, !.increment = 0,
                                !.segment = 0, !.setButtonRelease = 0], "set_exit")
       ELSE s

\* Mutant of loop_time_of_day: the clock pauses whenever a time is being
\* set, also the timer's.
loop_time_of_day_PausedInAnyEdit(s, p) ==
  IF s.isSettingTime # 1
  THEN Mark([s EXCEPT !.timeOfDay = count_time(@)], "tod_count")
  ELSE IF s.modeNumber = 0 THEN Mark(set_time(s, "timeOfDay", p), "tod_set")
  ELSE s

\* loop, lines 538-545: the time of day counts, or is being set.
loop_time_of_day(s, p) ==
  IF s.isSettingTime # 1 \/ s.modeNumber # 0
  THEN Mark([s EXCEPT !.timeOfDay = count_time(@)], "tod_count")
  ELSE Mark(set_time(s, "timeOfDay", p), "tod_set")

\* Mutant of loop_toggle: the toggle alternates between two modes.
loop_toggle_TwoModes(s, p) ==
  IF p.toggle = 1 THEN [s EXCEPT !.toggleButtonRelease = 1]
  ELSE IF s.toggleButtonRelease = 1
       THEN Mark([s EXCEPT !.modeNumber = (@ + 1) % 2, !.leds = AllLeds(0),
                           !.isSettingTime = 0, !.toggleButtonRelease = 0,
                           !.flash = 0], "toggle")
       ELSE s

\* Mutant of loop_toggle: the toggle also stops the stopwatch and the timer.
loop_toggle_StopsCounting(s, p) ==
  IF p.toggle = 1 THEN [s EXCEPT !.toggleButtonRelease = 1]
  ELSE IF s.toggleButtonRelease = 1
       THEN Mark([s EXCEPT !.modeNumber = (@ + 1) % 3, !.leds = AllLeds(0),
                           !.isSettingTime = 0, !.toggleButtonRelease = 0,
                           !.flash = 0, !.isStopwatchCounting = 0,
                           !.isTimerCounting = 0], "toggle")
       ELSE s

\* loop, lines 547-577: the toggle button steps the mode.
loop_toggle(s, p) ==
  IF p.toggle = 1 THEN [s EXCEPT !.toggleButtonRelease = 1]
  ELSE IF s.toggleButtonRelease = 1
       THEN Mark([s EXCEPT !.modeNumber = (@ + 1) % 3, !.leds = AllLeds(0),
                           !.isSettingTime = 0, !.toggleButtonRelease = 0,
                           !.flash = 0], "toggle")
       ELSE s

\* Mutant of loop_mode: a running stopwatch also counts while another mode
\* is displayed.
loop_mode_BackgroundStopwatch(s, p) ==
  LET b == IF s.isStopwatchCounting = 1
           THEN [s EXCEPT !.stopWatchTime = count_time(@)] ELSE s
  IN  CASE s.modeNumber = 0 -> [b EXCEPT !.leds = led_display(@, b.timeOfDay)]
        [] s.modeNumber = 1 -> run_stopwatch(s, p)
        [] s.modeNumber = 2 -> run_timer(b, p)
        [] OTHER -> s

\* loop, lines 579-588: the handler of the current mode.
loop_mode(s, p) ==
  CASE s.modeNumber = 0 -> [s EXCEPT !.leds = led_display(@, s.timeOfDay)]
    [] s.modeNumber = 1 -> run_stopwatch(s, p)
    [] s.modeNumber = 2 -> run_timer(s, p)
    [] OTHER -> s

\* void loop(): one tick on the button sample p.
loop(s, p) ==
  loop_mode(loop_toggle(loop_time_of_day(loop_set([s EXCEPT !.events = {}], p), p), p), p)

----------------------------------------------------------------------------
\* The program variables take the values of record r.
Becomes(r) ==
  /\ timeOfDay' = r.timeOfDay
  /\ stopWatchTime' = r.stopWatchTime
  /\ timer' = r.timer
  /\ modeNumber' = r.modeNumber
  /\ toggleButtonRelease' = r.toggleButtonRelease
  /\ f1ButtonRelease' = r.f1ButtonRelease
  /\ f2ButtonRelease' = r.f2ButtonRelease
  /\ f3ButtonRelease' = r.f3ButtonRelease
  /\ setButtonRelease' = r.setButtonRelease
  /\ increment' = r.increment
  /\ segment' = r.segment
  /\ isSettingTime' = r.isSettingTime
  /\ isStopwatchCounting' = r.isStopwatchCounting
  /\ isTimerCounting' = r.isTimerCounting
  /\ flash' = r.flash
  /\ leds' = r.leds
  /\ events' = r.events

\* What the history variable was keeps of the state a tick starts in.
Flags ==
  [ modeNumber |-> modeNumber, isSettingTime |-> isSettingTime,
    isStopwatchCounting |-> isStopwatchCounting, isTimerCounting |-> isTimerCounting ]

\* Everything but the time of day is as initialised, buttons not pressed.
InitOthers ==
  /\ stopWatchTime = PowerOn.stopWatchTime
  /\ timer = PowerOn.timer
  /\ modeNumber = PowerOn.modeNumber
  /\ toggleButtonRelease = PowerOn.toggleButtonRelease
  /\ f1ButtonRelease = PowerOn.f1ButtonRelease
  /\ f2ButtonRelease = PowerOn.f2ButtonRelease
  /\ f3ButtonRelease = PowerOn.f3ButtonRelease
  /\ setButtonRelease = PowerOn.setButtonRelease
  /\ increment = PowerOn.increment
  /\ segment = PowerOn.segment
  /\ isSettingTime = PowerOn.isSettingTime
  /\ isStopwatchCounting = PowerOn.isStopwatchCounting
  /\ isTimerCounting = PowerOn.isTimerCounting
  /\ flash = PowerOn.flash
  /\ pins = NoButton
  /\ was = Flags
  /\ startTime = timeOfDay
  /\ held = 0
  /\ tickCount = 0

\* The globals as initialised, before the first loop().
Init ==
  /\ timeOfDay = PowerOn.timeOfDay
  /\ leds = PowerOn.leds
  /\ events = PowerOn.events
  /\ InitOthers

\* The buttons are sampled as p and loop() runs once.
Sample(p) ==
  /\ pins' = p
  /\ Becomes(loop(State, p))
  /\ was' = Flags
  /\ startTime' = startTime
  /\ held' = IF "ed_hold" \in events' THEN held + 1 ELSE 0
  /\ tickCount' = tickCount + 1

\* One iteration of loop() with the buttons at any level.
Tick ==
  /\ tickCount < MaxTicks
  /\ \E p \in Pins : Sample(p)

Next == Tick

Spec == Init /\ [][Next]_vars

----------------------------------------------------------------------------
\* The countdown runs: the toggle, set and start/stop buttons are free for
\* the first SetupTicks ticks, then a timer that was set and started is left
\* alone in the timer mode.
SetupPins == {p \in Pins : p.f2 = 0 /\ p.f3 = 0}

SetupTick ==
  /\ tickCount < SetupTicks
  /\ \E p \in SetupPins : Sample(p)

RunTick ==
  /\ tickCount >= SetupTicks
  /\ tickCount < RunTicks
  /\ modeNumber = 2 /\ isSettingTime = 0 /\ isTimerCounting = 1
  /\ timer # timeStruct
  /\ Sample(NoButton)

NextCountdown == SetupTick \/ RunTick

SpecCountdown == Init /\ [][NextCountdown]_vars

----------------------------------------------------------------------------
\* The finished timer: after the same first SetupTicks ticks, a timer that
\* shows zero in the timer mode is left there; start/stop and clear stay
\* free, the toggle and set buttons are not touched.
FlashPins == {p \in Pins : p.toggle = 0 /\ p.set = 0 /\ p.f3 = 0}

FlashTick ==
  /\ tickCount >= SetupTicks
  /\ tickCount < FlashTicks
  /\ modeNumber = 2 /\ isSettingTime = 0
  /\ timer = timeStruct
  /\ \E p \in FlashPins : Sample(p)

NextFlash == SetupTick \/ FlashTick

SpecFlash == Init /\ [][NextFlash]_vars

----------------------------------------------------------------------------
\* The arithmetic of count_time: the clock has run untouched since power-on
\* to some time of day (the LEDs show its last whole second) and keeps
\* running with no button pressed, each tick applying count_time once.
CountHours == {0, 12, 22, 23}
CountMinutes == {0, 30, 58, 59}
CountSeconds == {0, 1, 58, 59}
CountMillis == {0, TICKRATE, 496, 1000 - 2 * TICKRATE, 1000 - TICKRATE}
CountInputs ==
  [hours : CountHours, minutes : CountMinutes, seconds : CountSeconds,
   milliseconds : CountMillis]

InitCount ==
  /\ timeOfDay \in CountInputs
  /\ leds = led_display(AllLeds(0), [timeOfDay EXCEPT !.milliseconds = 0])
  /\ events = IF timeOfDay = timeStruct THEN {} ELSE {"tod_count"}
  /\ InitOthers

CountTick ==
  /\ tickCount < MaxCount
  /\ Sample(NoButton)

NextCount == CountTick

SpecCount == InitCount /\ [][NextCount]_vars

----------------------------------------------------------------------------
\* The editing sessions: the clock, or the timer, is being set to a time
\* some earlier editing left (an idle tick of set_time has passed, the LEDs
\* show the time).  start/stop, clear and h/m/s are free for EditTicks
\* ticks; then, if start/stop is down, it stays held.
EditHours == {0, 22, 23}
EditMinutes == {0, 58, 59}
EditSeconds == {0, 58, 59}
EditInputs ==
  [hours : EditHours, minutes : EditMinutes, seconds : EditSeconds,
   milliseconds : {0}]
\* The time of day while the timer is being set.
EditClock == [hours |-> 12, minutes |-> 0, seconds |-> 0, milliseconds |-> 0]

InitEdit ==
  /\ modeNumber \in {0, 2}
  /\ IF modeNumber = 0
     THEN /\ timeOfDay \in EditInputs
          /\ timer = timeStruct
          /\ leds = led_display(AllLeds(0), timeOfDay)
          /\ events = {"tod_set"}
     ELSE /\ timeOfDay = EditClock
          /\ timer \in EditInputs
          /\ leds = led_display(AllLeds(0), timer)
          /\ events = {"tod_count", "t_set"}
  /\ stopWatchTime = timeStruct
  /\ isSettingTime = 1
  /\ segment \in 0 .. 2
  /\ increment = 0
  /\ toggleButtonRelease = 0 /\ f1ButtonRelease = 0 /\ f2ButtonRelease = 0
  /\ f3ButtonRelease = 0 /\ setButtonRelease = 0
  /\ isStopwatchCounting = 0 /\ isTimerCounting = 0
  /\ flash = 0
  /\ pins = NoButton
  /\ was = Flags
  /\ startTime = timeOfDay
  /\ held = 0
  /\ tickCount = 0

EditPins == {p \in Pins : p.toggle = 0 /\ p.set = 0}
HoldPin == [NoButton EXCEPT !.f1 = 1]

EditTick ==
  /\ tickCount < EditTicks
  /\ \E p \in EditPins : Sample(p)

HoldTick ==
  /\ tickCount >= EditTicks
  /\ tickCount < HoldTicks
  /\ pins.f1 = 1
  /\ Sample(HoldPin)

NextEdit == EditTick \/ HoldTick

SpecEdit == InitEdit /\ [][NextEdit]_vars

----------------------------------------------------------------------------
\* The set timer: the timer mode shows a time that was set and has not been
\* started (editing was left, an idle tick has passed); start/stop, clear
\* and set are free.
TimerHours == {0, 1, 23}
TimerMinutes == {0, 1, 59}
TimerSeconds == {0, 1, 59}
TimerInputs ==
  [hours : TimerHours, minutes : TimerMinutes, seconds : TimerSeconds,
   milliseconds : {0}] \ {timeStruct}

InitTimer ==
  /\ modeNumber = 2
  /\ timeOfDay = EditClock
  /\ stopWatchTime = timeStruct
  /\ timer \in TimerInputs
  /\ leds = led_display(AllLeds(0), timer)
  /\ events = {"tod_count"}
  /\ isSettingTime = 0
  /\ segment = 0
  /\ increment = 0
  /\ toggleButtonRelease = 0 /\ f1ButtonRelease = 0 /\ f2ButtonRelease = 0
  /\ f3ButtonRelease = 0 /\ setButtonRelease = 0
  /\ isStopwatchCounting = 0 /\ isTimerCounting = 0
  /\ flash = 0
  /\ pins = NoButton
  /\ was = Flags
  /\ startTime = timeOfDay
  /\ held = 0
  /\ tickCount = 0

TimerPins == {p \in Pins : p.toggle = 0 /\ p.f3 = 0}

TimerTick ==
  /\ tickCount < TimerTicks
  /\ \E p \in TimerPins : Sample(p)

NextTimer == TimerTick

SpecTimer == InitTimer /\ [][NextTimer]_vars

----------------------------------------------------------------------------
\* The stopwatch: the stopwatch mode shows a time the stopwatch has counted
\* to (the LEDs show its last whole second), running or stopped, while the
\* clock is somewhere in its second; all five buttons are free.
WatchHours == {0, 23}
WatchMinutes == {0, 59}
WatchSeconds == {0, 59}
WatchMillis == {0, TICKRATE, 1000 - 2 * TICKRATE, 1000 - TICKRATE}
WatchInputs ==
  [hours : WatchHours, minutes : WatchMinutes, seconds : WatchSeconds,
   milliseconds : WatchMillis]
WatchClocks ==
  {[EditClock EXCEPT !.milliseconds = m] :
     m \in {TICKRATE, 1000 - 2 * TICKRATE, 1000 - TICKRATE}}

InitWatch ==
  /\ modeNumber = 1
  /\ timeOfDay \in WatchClocks
  /\ stopWatchTime \in WatchInputs
  /\ timer = timeStruct
  /\ leds = led_display(AllLeds(0), [stopWatchTime EXCEPT !.milliseconds = 0])
  /\ isStopwatchCounting \in {0, 1}
  /\ events = IF isStopwatchCounting = 1 THEN {"tod_count", "sw_count"}
              ELSE {"tod_count"}
  /\ isSettingTime = 0
  /\ segment = 0
  /\ increment = 0
  /\ toggleButtonRelease = 0 /\ f1ButtonRelease = 0 /\ f2ButtonRelease = 0
  /\ f3ButtonRelease = 0 /\ setButtonRelease = 0
  /\ isTimerCounting = 0
  /\ flash = 0
  /\ pins = NoButton
  /\ was = Flags
  /\ startTime = timeOfDay
  /\ held = 0
  /\ tickCount = 0

WatchTick ==
  /\ tickCount < WatchTicks
  /\ \E p \in Pins : Sample(p)

NextWatch == WatchTick

SpecWatch == InitWatch /\ [][NextWatch]_vars

----------------------------------------------------------------------------
\* Helpers of the properties.
DayMs == 24 * 60 * 60 * 1000
TotalMs(t) == ((t.hours * 60 + t.minutes) * 60 + t.seconds) * 1000 + t.milliseconds
InRange(t) ==
  /\ t.hours \in 0 .. 23
  /\ t.minutes \in 0 .. 59
  /\ t.seconds \in 0 .. 59
  /\ t.milliseconds \in 0 .. 999
Ticked == tickCount' = tickCount + 1
\* Line 541 found the clock being set in the last tick.
ClockWasSet ==
  /\ was.modeNumber = 0
  /\ \/ "set_enter" \in events
     \/ was.isSettingTime = 1 /\ "set_exit" \notin events
StartStopEvents == {"sw_f1", "t_f1"}
ClearEvents == {"sw_clear", "t_clear", "ed_clear"}

\* C1: every tick advances the time of day by TICKRATE ms (modulo a day),
\* in every mode and whatever runs or is edited, except the ticks that find
\* the clock mode in editing, which run set_time on it instead.
C1_TimeOfDayAlwaysAdvances ==
  [][ Ticked =>
        IF ClockWasSet'
        THEN "tod_set" \in events' /\ "tod_count" \notin events'
             /\ timeOfDay'.milliseconds = 0
        ELSE /\ "tod_count" \in events' /\ "tod_set" \notin events'
             /\ TotalMs(timeOfDay') % DayMs = (TotalMs(timeOfDay) + TICKRATE) % DayMs
             /\ timeOfDay'.milliseconds = (timeOfDay.milliseconds + TICKRATE) % 1000 ]_vars

\* C1 witness: a tick of the timer mode in editing, stopwatch flagged
\* running, in which the time of day was advanced.
C1_Witness ==
  /\ modeNumber = 2 /\ isSettingTime = 1 /\ was.isSettingTime = 1
  /\ "t_set" \in events /\ "tod_count" \in events
  /\ isStopwatchCounting = 1
  /\ TotalMs(timeOfDay) = tickCount * TICKRATE

\* C4: at the end of every tick all three time values are in range.
C4_TimeValuesInRange ==
  InRange(timeOfDay) /\ InRange(stopWatchTime) /\ InRange(timer)

\* C5 as claimed: a tick in which the mode toggles ends with the stopwatch
\* and the timer stopped.
C5_ToggleStopsCounting ==
  "toggle" \in events => isStopwatchCounting = 0 /\ isTimerCounting = 0

\* C5 as amended: the toggle itself leaves both running flags alone; in a
\* tick in which the mode toggles a flag changes only through a start/stop,
\* clear or enter-set-time release event handled in that tick.
C5_ToggleKeepsCounting ==
  "toggle" \in events =>
     /\ isStopwatchCounting # was.isStopwatchCounting
          => events \cap {"sw_f1", "sw_clear"} # {}
     /\ isTimerCounting # was.isTimerCounting
          => events \cap {"t_f1", "t_clear", "set_enter"} # {}

\* C5 witness: the mode was toggled away from a running stopwatch, which is
\* still flagged running.
C5_Witness ==
  /\ "toggle" \in events /\ was.modeNumber = 1 /\ modeNumber = 2
  /\ was.isStopwatchCounting = 1 /\ isStopwatchCounting = 1

\* C6: a handler that fires the release event of a button has cleared the
\* latch of that button.
C6_EventClearsOwnLatch ==
  /\ events \cap {"set_enter", "set_exit"} # {} => setButtonRelease = 0
  /\ "toggle" \in events => toggleButtonRelease = 0
  /\ events \cap {"sw_f1", "t_f1", "ed_f1rel"} # {} => f1ButtonRelease = 0
  /\ events \cap ClearEvents # {} => f2ButtonRelease = 0
  /\ "ed_f3" \in events => f3ButtonRelease = 0

\* C7: a start/stop or clear release event is acted on only in a tick whose
\* previous sample of that button was pressed.
C7_EventOnlyAtRelease ==
  [][ /\ events' \cap StartStopEvents # {} => pins.f1 = 1
      /\ events' \cap ClearEvents # {} => pins.f2 = 1 ]_vars

C9_ClearZeroesAndStops ==
  /\ "sw_clear" \in events => stopWatchTime = timeStruct /\ isStopwatchCounting = 0
  /\ "t_clear" \in events => timer = timeStruct /\ isTimerCounting = 0

\* C9 witness: the clear event was handled while the stopwatch was running.
C9_Witness ==
  /\ "sw_clear" \in events /\ "sw_f1" \notin events
  /\ was.isStopwatchCounting = 1 /\ was.modeNumber = 1

\* C2: a running countdown that is left alone reaches 00:00:00:000: as long
\* as it runs it has time left, or stands at all zero (it never steps over
\* zero to a time below it).
C2_CountdownReachesZero ==
  (modeNumber = 2 /\ isSettingTime = 0 /\ isTimerCounting = 1)
     => (TotalMs(timer) > 0 \/ timer = timeStruct)

\* C3: a tick of the timer mode outside editing takes the flashing path
\* exactly when all four fields of the countdown time are zero.
C3_FlashIffAllZero ==
  (modeNumber = 2 /\ isSettingTime = 0 /\ tickCount > 0)
     => ("t_flash" \in events <=> timer = timeStruct)

\* C10: on an in-range time whose milliseconds are a multiple of TICKRATE,
\* count_time gives the in-range time TICKRATE ms later modulo a day, so a
\* run of k applications is k * TICKRATE ms later; from milliseconds 0,
\* 1000/TICKRATE applications add exactly one second and leave milliseconds
\* 0; the last tick before midnight gives 00:00:00:000.
C10_CountTimeAddsTick ==
  (InRange(timeOfDay) /\ timeOfDay.milliseconds % TICKRATE = 0) =>
     LET r == count_time(timeOfDay)
     IN  /\ InRange(r)
         /\ TotalMs(r) = (TotalMs(timeOfDay) + TICKRATE) % DayMs
         /\ TotalMs(timeOfDay) = (TotalMs(startTime) + tickCount * TICKRATE) % DayMs
         /\ (startTime.milliseconds = 0 /\ tickCount = 1000 \div TICKRATE) =>
              /\ timeOfDay.milliseconds = 0
              /\ TotalMs(timeOfDay) = (TotalMs(startTime) + 1000) % DayMs
         /\ (timeOfDay.hours = 23 /\ timeOfDay.minutes = 59 /\ timeOfDay.seconds = 59
             /\ timeOfDay.milliseconds = 1000 - TICKRATE) => r = timeStruct

\* C10 witness: the clock has ticked over midnight to 00:00:00:000.
C10_Witness ==
  /\ timeOfDay = timeStruct /\ "tod_count" \in events
  /\ startTime.hours = 23 /\ startTime.milliseconds = 0
  /\ tickCount = 1000 \div TICKRATE


\* The time an editing session works on.
Edited == IF modeNumber = 0 THEN timeOfDay ELSE timer

\* C11: during editing an increment carries and wraps at 59: incrementing
\* seconds = 59 gives seconds 0 and the minutes one higher, incrementing
\* minutes = 59 gives minutes 0 and the hours one higher, hours 23 go to 0,
\* and after any increment seconds and minutes are at most 59.  (Ticks
\* that also clear the time are left out: the clear acts first.)
C11_IncrementCarriesAt59 ==
  [][("ed_inc" \in events' /\ "ed_clear" \notin events' /\ modeNumber' = modeNumber)
       => LET t == Edited
              u == Edited'
          IN  /\ u.seconds <= 59 /\ u.minutes <= 59
              /\ (segment' = 0 /\ t.seconds = 59)
                   => (u.seconds = 0 /\ (t.minutes < 59 => u.minutes = t.minutes + 1))
              /\ (segment' = 0 /\ t.seconds < 59) => u.seconds = t.seconds + 1
              /\ (segment' = 1 /\ t.minutes = 59)
                   => (u.minutes = 0 /\ u.hours = (t.hours + 1) % 24)
              /\ (segment' = 1 /\ t.minutes < 59) => u.minutes = t.minutes + 1
              /\ segment' = 2 => u.hours = (t.hours + 1) % 24]_vars


\* C12: while start/stop is held during an editing session, the unit under
\* the cursor is incremented in the first held tick and then every 19
\* ticks: the held ticks that increment are exactly the 1st, 20th, 39th,
\* ..., so two consecutive increments are 19 ticks apart and a hold of 19
\* ticks increments once.
C12_AutoRepeatEvery19 ==
  "ed_hold" \in events => (("ed_inc" \in events) <=> ((held - 1) % 19 = 0))


\* C13: whenever an editing session begins (the set button's release event
\* takes isSettingTime from 0 to 1), the cursor segment is 0 (Seconds) at
\* that point, whichever way the session before ended.  Nothing ahead of
\* the set button step writes segment, so its value at that point is the
\* one the tick started with.
C13_EditingBeginsAtSeconds ==
  [][("set_enter" \in events') => segment = 0]_vars

\* C14: a mode-toggle release event ends the editing session and clears
\* the transient counters: once it has been processed isSettingTime = 0,
\* flash = 0 and increment = 0.  (After it only the flashing step of the
\* timer moves flash in the same tick, by one.)
C14_ToggleClearsTransients ==
  ("toggle" \in events)
    => /\ isSettingTime = 0
       /\ increment = 0
       /\ flash = (IF "t_flash" \in events THEN 1 ELSE 0)


\* C15: a release of the toggle button (down at the last sample, up at
\* this one) steps the mode by one in the cycle Clock -> Stopwatch ->
\* Timer -> Clock, so three of them bring the mode back; no other tick
\* changes the mode; modeNumber is always 0, 1 or 2.
C15_ToggleStepsModeCyclically ==
  [][/\ modeNumber' \in 0 .. 2
     /\ IF pins.toggle = 1 /\ pins'.toggle = 0
        THEN modeNumber' = (modeNumber + 1) % 3
        ELSE modeNumber' = modeNumber]_vars

\* The third toggle release after power-on has brought the clock back.
C15_Witness ==
  tickCount = 6 /\ "toggle" \in events /\ was.modeNumber = 2 /\ modeNumber = 0

\* C17: isSettingTime = 1 only in the modes Clock and Timer; a release of
\* the set button in the stopwatch leaves isSettingTime at 0, and a tick
\* that arrives in the stopwatch has left editing.
C17_EditingOnlyInClockOrTimer ==
  [][/\ isSettingTime' = 1 => modeNumber' \in {0, 2}
     /\ (modeNumber = 1 /\ pins.set = 1 /\ pins'.set = 0) => isSettingTime' = 0
     /\ (modeNumber # 1 /\ modeNumber' = 1) => isSettingTime' = 0]_vars

\* The set button was released in the stopwatch.
C17_Witness ==
  /\ was.modeNumber = 1 /\ modeNumber = 1
  /\ "set_exit" \in events /\ isSettingTime = 0


\* C16: in a tick that starts and stays in the timer mode, not editing,
\* with the timer at zero, the flash counter advances by one modulo 80;
\* all 17 LEDs are switched on in the tick where the counter becomes 0 and
\* off in the tick where it becomes 40, and no other such tick changes an
\* LED: on for 40 ticks, off for 40, every 80 ticks.
C16_FlashCycle ==
  [][(/\ modeNumber = 2 /\ isSettingTime = 0 /\ timer = timeStruct
      /\ "toggle" \notin events' /\ "set_enter" \notin events')
       => /\ "t_flash" \in events'
          /\ flash' = (flash + 1) % 80
          /\ leds' = IF flash' = 0 THEN AllLeds(1)
                     ELSE IF flash' = 40 THEN AllLeds(0) ELSE leds]_vars

\* The last tick of an on phase: the counter is at 39, the LEDs still on.
C16_Witness ==
  "t_flash" \in events /\ flash = 39 /\ leds = AllLeds(1)


\* Bit i of a number that is not negative, and the LEDs that show a time
\* in binary: seconds on six pins from lowestSecPin, minutes on six from
\* lowestMinPin, hours on five from lowestHourPin.
Bit(n, i) == (n \div (2 ^ i)) % 2
Projection(l, t) ==
  /\ \A i \in 0 .. 5 : l[lowestSecPin + i] = Bit(t.seconds, i)
  /\ \A i \in 0 .. 5 : l[lowestMinPin + i] = Bit(t.minutes, i)
  /\ \A i \in 0 .. 4 : l[lowestHourPin + i] = Bit(t.hours, i)

\* C18: in the clock mode, not editing, at the end of every tick in which
\* the milliseconds of the time of day are 0 the 17 LEDs are the binary
\* projection of its seconds, minutes and hours; in a tick where they are
\* neither 0 nor 1000 led_display writes no LED (the LEDs are as the tick
\* found them, or as the mode toggle cleared them).
C18_ClockLedsShowTime ==
  [][(modeNumber' = 0 /\ isSettingTime' = 0)
       => IF timeOfDay'.milliseconds = 0
          THEN Projection(leds', timeOfDay')
          ELSE timeOfDay'.milliseconds # 1000
                 => leds' = IF "toggle" \in events' THEN AllLeds(0) ELSE leds]_vars

\* The clock has just counted to 23:59:59 and shows it.
C18_Witness ==
  /\ tickCount > 0 /\ modeNumber = 0 /\ isSettingTime = 0
  /\ timeOfDay = [hours |-> 23, minutes |-> 59, seconds |-> 59, milliseconds |-> 0]
  /\ leds[highestPin] = 1 /\ leds[lowestHourPin + 3] = 0
  /\ leds[lowestSecPin] = 1 /\ leds[lowestSecPin + 2] = 0
  /\ leds[lowestMinPin + 2] = 0 /\ leds[lowestMinPin + 5] = 1


OneUnit(seg) ==
  [timeStruct EXCEPT !.seconds = IF seg = 0 THEN 1 ELSE 0,
                     !.minutes = IF seg = 1 THEN 1 ELSE 0,
                     !.hours = IF seg = 2 THEN 1 ELSE 0]

\* C20: entering the editing of the timer sets the timer to zero and
\* isTimerCounting to 0 before any edit action (at the end of that tick
\* the timer is zero, or the one unit an increment of the same tick made
\* of zero), and no tick that edits the timer flashes or counts down.
C20_TimerEditStartsAtZero ==
  [][/\ ("set_enter" \in events' /\ modeNumber = 2)
          => /\ isTimerCounting' = 0
             /\ timer' = IF "ed_inc" \in events' THEN OneUnit(segment')
                         ELSE timeStruct
     /\ (modeNumber' = 2 /\ isSettingTime' = 1)
          => /\ "t_set" \in events'
             /\ "t_flash" \notin events' /\ "t_count" \notin events']_vars

\* Editing was entered on a timer that was counting down.
C20_Witness ==
  /\ tickCount = 3 /\ "set_enter" \in events
  /\ was.modeNumber = 2 /\ was.isTimerCounting = 1
  /\ timer = timeStruct /\ isTimerCounting = 0 /\ isSettingTime = 1


\* A time with the unit at the segment cleared.
UnitCleared(t, seg) ==
  [t EXCEPT !.seconds = IF seg = 0 THEN 0 ELSE @,
            !.minutes = IF seg = 1 THEN 0 ELSE @,
            !.hours = IF seg = 2 THEN 0 ELSE @]

\* An editing tick took the time t to u: the milliseconds are 0, and the
\* hours, minutes and seconds are those of t unless the tick incremented
\* (ev has "ed_inc") or cleared the unit at the cursor seg.
EditFrame(t, u, ev, seg) ==
  /\ u.milliseconds = 0
  /\ ("ed_inc" \notin ev /\ "ed_clear" \notin ev)
       => u = [t EXCEPT !.milliseconds = 0]
  /\ ("ed_inc" \notin ev /\ "ed_clear" \in ev)
       => u = [UnitCleared(t, seg) EXCEPT !.milliseconds = 0]

\* C21: in every tick in which a time is being edited (the time of day in
\* the clock mode, the timer in the timer mode) its milliseconds are 0 at
\* the end of the tick, and its hours, minutes and seconds change in that
\* tick only through an increment or a clear of the unit at the cursor.
\* (A tick that enters the editing of the timer starts from the zero that
\* entering sets.)
C21_EditingChangesOnlyByIncrementOrClear ==
  [][/\ ("tod_set" \in events')
          => EditFrame(timeOfDay, timeOfDay', events', segment')
     /\ ("t_set" \in events')
          => EditFrame(IF "set_enter" \in events' THEN timeStruct ELSE timer,
                       timer', events', segment')]_vars

\* The minutes of 23:59:59 were cleared, the hours and seconds are kept.
C21_Witness ==
  /\ isSettingTime = 1 /\ "ed_clear" \in events /\ "ed_inc" \notin events
  /\ segment = 1
  /\ Edited = [hours |-> 23, minutes |-> 0, seconds |-> 59, milliseconds |-> 0]


\* C22: at the end of every tick the milliseconds of the time of day and
\* of the stopwatch time are a multiple of TICKRATE in 0 .. 1000 - TICKRATE
\* (so count_time's test milliseconds == 1000 is never stepped over and
\* they never exceed 1000), after any ticks, edits, clears and mode
\* switches.
C22_MillisOnTickGrid ==
  \A t \in {timeOfDay, stopWatchTime} :
    /\ t.milliseconds % TICKRATE = 0
    /\ t.milliseconds >= 0
    /\ t.milliseconds <= 1000 - TICKRATE

\* The stopwatch has just counted across the end of its day.
C22_Witness ==
  /\ "sw_count" \in events /\ "sw_clear" \notin events /\ tickCount > 0
  /\ stopWatchTime = timeStruct /\ leds = AllLeds(0)

====
